---- MODULE Spec2Model ----
(***************************************************************************)
(* The chunk-request pool of vite/net/request.go: splitChunk, the          *)
(* chunkRequest record, and chunkPool with its dispatch loop (taskLoop),   *)
(* its timeout loop (loop), the inbound handler (Handle) and the           *)
(* lifecycle (start/stop).                                                 *)
(*                                                                         *)
(* Tasks: the callers of add/exec/threshold/start/stop, the dispatch loop, *)
(* the timeout loop and one inbound-message task.  Each action is one      *)
(* call (or one loop iteration) executed without interleaving; retry is    *)
(* modelled a second time statement by statement, for the properties about *)
(* calls that overlap.                                                     *)
(*                                                                         *)
(* What the pool does to its collaborators (the receiver's calls, the      *)
(* sends, the value Handle returns, the closes of term) is kept in         *)
(* observation variables.  They are no state of the program and no action  *)
(* reads them; each specification records the ones its properties are      *)
(* about (watch) and leaves the others at their initial values.            *)
(***************************************************************************)
EXTENDS Integers, Sequences, FiniteSets, TLC

(***************************************************************************)
(* Program constants                                                       *)
(***************************************************************************)
\* request.go:81  const chunk = 20
chunk == 20

\* request.go:154  current+500 > p.target
Margin == 500

(***************************************************************************)
(* Bounds of the model                                                     *)
(***************************************************************************)
\* chunkRequests created over a run (ids 1..MaxChunks)
MaxChunks == 2

\* chunkRequests created over a run of the specifications about one chunk's
\* responses and about the lifecycle
MaxChunksOne == 1

\* account blocks in one response
MaxABlocks == 2

\* snapshot blocks a response may carry beyond a full chunk
MaxSurplus == 1

\* stop() calls over a run
MaxStops == 2

\* receiver.catch calls counted per chunk (the counter saturates here)
MaxCatch == 2

\* splitChunk is checked on every pair of heights in 0..MaxHeight
MaxHeight == 45

\* the lowest height add/exec ask for in the pool model
Low == 481

(***************************************************************************)
(* Inputs                                                                  *)
(***************************************************************************)
Heights == 0..MaxHeight

\* ranges handed to add/exec: one full chunk, one short chunk, a range of
\* two chunks, and an empty range (from > to)
Froms == {Low, Low + chunk}
Tos == {Low + chunk - 1, Low + chunk + 1}

\* heights reported through threshold
Currents == {0, 1, 3}

\* snapshot-block counts of a response: none, half a chunk, a full chunk, more
SBlockCounts == {0, chunk \div 2, chunk} \cup (chunk + 1 .. chunk + MaxSurplus)

Peers == {"pA", "pB"}
NoPeer == "nil"

SubLedgerCode == "SubLedgerCode"
OtherCode == "OtherCode"
Cmds == {SubLedgerCode, OtherCode}

\* the callers of retry that run in parallel: the timeout loop and a handler
RetryTasks == {"loop", "handle"}

VARIABLES
  reqs,       \* every chunkRequest created so far; reqs[id] is the request with that id
  queue,      \* chunkPool.queue: ids, FIFO
  chunks,     \* chunkPool.chunks: the keys of the sync.Map
  target,     \* chunkPool.target
  should,     \* chunkPool.should
  term,       \* chunkPool.term: "nil", "open" or "closed"
  taskPc,     \* taskLoop: "off", "run" or "exited"
  loopPc,     \* loop: "off", "run" or "exited"
  stopPc,     \* the first caller of stop: "idle", "waiting" in wg.Wait, "returned"
  peers,      \* peerSet: the peers connected now
  hMsg,       \* observed: the message of the last Handle call
  recv,       \* observed: receiveAccountBlock/receiveSnapshotBlock calls of that call
  hErr,       \* observed: the error that call returned
  hRetry,     \* observed: the id that call passed to retry (0: none)
  catches,    \* observed: receiver.catch calls per chunk id
  sent,       \* observed: the last peer.Send, <<id, peer>>
  closes,     \* observed: close(p.term) executions
  stops,      \* observed: stop() calls
  reported,   \* observed: the last threshold call, <<current, p.target at the call>>
  rPc,        \* a retry call executed statement by statement: where each caller is
  rId,        \*   the id it was called with
  rOld,       \*   its local variable `old`
  watch,      \* which of the observations above a run records
  limit,      \* how many chunkRequests a run creates at most
  sFrom, sTo, sOut, sPc   \* one application of splitChunk

poolVars == <<reqs, queue, chunks, target, should, term, taskPc, loopPc, peers>>
handleVars == <<hMsg, recv, hErr, hRetry>>
obsVars == <<handleVars, catches, sent>>
stopVars == <<stopPc, closes, stops>>
splitVars == <<sFrom, sTo, sOut, sPc>>
retryVars == <<rPc, rId, rOld>>
\* what the calls modelled as one step leave alone (threshold records its call)
fixedVars == <<splitVars, watch, limit, retryVars, reported>>
vars == <<poolVars, obsVars, stopVars, splitVars, watch, limit, retryVars, reported>>

\* an observation is recorded only under the specifications that watch it
Observe(what, new, old) == IF what \in watch THEN new ELSE old

\* message ids seen by Handle: every id the allocator gives during the run,
\* before the chunk is created, while it is in flight and after it is gone
MsgIds == 1..limit

\* account blocks of a response: none or MaxABlocks; they only reach the
\* receiver, so they are varied where the receiver's calls are recorded
ABlockCounts == IF "handle" \in watch THEN {0, MaxABlocks} ELSE {0}

(***************************************************************************)
(* splitChunk                                                              *)
(***************************************************************************)
Min(a, b) == IF a < b THEN a ELSE b

\* the clamp of one iteration, without the upper limit
chunkToUnclamped(from, to) == from + chunk - 1

\* request.go:95-97  cTo = from + chunk - 1, clamped to `to`
chunkTo(from, to) == IF from + chunk - 1 > to THEN to ELSE from + chunk - 1

RECURSIVE splitLoop(_, _)
\* request.go:94-103  the loop: one interval per iteration, from = cTo + 1
splitLoop(from, to) ==
  IF from <= to
  THEN <<(<<from, chunkTo(from, to)>>)>> \o splitLoop(chunkTo(from, to) + 1, to)
  ELSE <<>>

\* request.go:83-106  the early return, the array of `total` entries the loop
\* fills by index, and the slice chunks[:i] returned
splitChunk(from, to) ==
  IF from > to \/ to = 0
  THEN <<>>
  ELSE LET total == (to - from) \div chunk + 1
           out == splitLoop(from, to)
       IN IF Len(out) > total THEN <<"index out of range">> ELSE out

(***************************************************************************)
(* chunkRequest and the helpers of chunkPool                               *)
(***************************************************************************)
\* request.go:111-119, 302, 316  a fresh chunkRequest: zero values but the band
NewReq(band) ==
  [from |-> band[1], to |-> band[2], peer |-> NoPeer, state |-> "waiting",
   expired |-> FALSE, count |-> 0]

\* the height each peer advertises: pA serves every height asked for, pB only
\* the heights of the first chunk
peerHeight == [p \in Peers |-> IF p = "pA" THEN Low + 2 * chunk ELSE Low + chunk - 1]

\* peerSet.Pick: the connected peers advertising at least `height`
Pick(height) == {p \in peers : peerHeight[p] >= height}

\* what rand.Intn can select from Pick's result (NoPeer when it is empty)
PickChoices(height) == IF Pick(height) = {} THEN {NoPeer} ELSE Pick(height)

\* the part of the state request, retry, catch and do write
PoolState == [reqs |-> reqs, target |-> target, catches |-> catches, sent |-> sent]

\* request.go:376-379
catch(st, id) ==
  [st EXCEPT !.reqs[id].state = "error",
             !.catches[id] = Min(@ + 1, MaxCatch)]

\* request.go:381-385
do(st, id) ==
  [st EXCEPT !.reqs[id].expired = FALSE,
             !.reqs[id].state = "pending",
             !.sent = <<id, st.reqs[id].peer>>]

\* request.go:342  p.target = c.to
newTarget(old, to) == to

\* request.go:332-344; `p` is the peer rand.Intn selects
request(st, id, p) ==
  LET c == st.reqs[id] IN
  IF c.peer = NoPeer
  THEN IF Pick(c.to) = {}
       THEN catch(st, id)
       ELSE do([st EXCEPT !.reqs[id].peer = p,
                          !.target = newTarget(st.target, c.to)], id)
  ELSE do([st EXCEPT !.target = newTarget(st.target, c.to)], id)

\* a retry that may take any picked peer, the old one included
RetryChoicesAny(st, id) == PickChoices(st.reqs[id].to)

\* request.go:358-366  the peers retry may assign: those picked, but the old one
RetryChoices(st, id) ==
  LET cand == Pick(st.reqs[id].to) \ {st.reqs[id].peer}
  IN IF cand = {} THEN {NoPeer} ELSE cand

\* request.go:346-374; `p` is the first peer of Pick's result that is not the old one
retry(st, id, p) ==
  IF id \in chunks
  THEN IF p = NoPeer
       THEN catch([st EXCEPT !.reqs[id].peer = NoPeer], id)
       ELSE do([st EXCEPT !.reqs[id].peer = p], id)
  ELSE st

\* ids a retry can be asked for, with the choices it has
RetryPeers(id) ==
  IF id \in chunks THEN RetryChoices(PoolState, id) ELSE {NoPeer}

\* request.go:194  the completion test
fullCountStrict(c) == c.count > c.to - c.from + 1

\* request.go:194  c.count >= c.to-c.from+1
fullCount(c) == c.count >= c.to - c.from + 1

\* a done that leaves the entry in the map
doneKeeps(ids, id) == ids

\* request.go:326-330
done(ids, id) == IF id \in ids THEN ids \ {id} ELSE ids

SetPoolState(st) ==
  /\ reqs' = st.reqs
  /\ target' = st.target
  /\ catches' = Observe("catch", st.catches, catches)
  /\ sent' = Observe("send", st.sent, sent)

(***************************************************************************)
(* Callers: add, exec, threshold                                           *)
(***************************************************************************)
\* list.List of p2p/list: Append puts an element at the tail, Shift takes the
\* element at the head
listAppend(q, c) == q \o <<c>>
listShift(q) == [ele |-> Head(q), rest |-> Tail(q)]

\* an add that appends the chunks of a range from the last to the first
enqueueReversed(q, base, n) == q \o [i \in 1..n |-> base + n + 1 - i]

RECURSIVE enqueue(_, _, _)
\* request.go:301-304  the loop of add: the chunks base+1..base+n are appended
\* one after the other
enqueue(q, base, n) ==
  IF n = 0 THEN q ELSE listAppend(enqueue(q, base, n - 1), base + n)

\* request.go:298-310
add(from, to) ==
  LET cs == splitChunk(from, to)
      n == Len(cs)
      base == Len(reqs)
  IN /\ base + n <= limit
     /\ reqs' = reqs \o [i \in 1..n |-> NewReq(cs[i])]
     /\ queue' = enqueue(queue, base, n)
     /\ UNCHANGED <<chunks, target, should, term, taskPc, loopPc, peers>>
     /\ UNCHANGED <<obsVars, stopVars, fixedVars>>

RECURSIVE execLoop(_, _, _, _)
\* request.go:315-323  the loop of exec over the new chunks base+i..base+n;
\* pk[i] is the peer rand.Intn selects for the i-th of them
execLoop(st, base, i, pk) ==
  IF i > Len(pk)
  THEN st
  ELSE execLoop(request(st, base + i, pk[i]), base, i + 1, pk)

\* request.go:312-324
exec(from, to) ==
  LET cs == splitChunk(from, to)
      n == Len(cs)
      base == Len(reqs)
      created == [PoolState EXCEPT !.reqs = reqs \o [i \in 1..n |-> NewReq(cs[i])]]
  IN /\ base + n <= limit
     /\ \E pk \in [1..n -> Peers \cup {NoPeer}] :
          /\ \A i \in 1..n : pk[i] \in PickChoices(cs[i][2])
          /\ SetPoolState(execLoop(created, base, 1, pk))
     /\ UNCHANGED <<queue, chunks, should, term, taskPc, loopPc, peers>>
     /\ UNCHANGED <<handleVars, stopVars, fixedVars>>

\* a threshold that opens the gate already at current+500 = target
thresholdAtLeast(current) ==
  /\ should' = (current + Margin >= target)
  /\ reported' = Observe("gate", <<current, target>>, reported)
  /\ UNCHANGED <<reqs, queue, chunks, target, term, taskPc, loopPc, peers>>
  /\ UNCHANGED <<obsVars, stopVars, splitVars, watch, limit, retryVars>>

\* request.go:153-159
threshold(current) ==
  /\ should' = (current + Margin > target)
  /\ reported' = Observe("gate", <<current, target>>, reported)
  /\ UNCHANGED <<reqs, queue, chunks, target, term, taskPc, loopPc, peers>>
  /\ UNCHANGED <<obsVars, stopVars, splitVars, watch, limit, retryVars>>

\* a threshold call with a height that opens the gate
thresholdOpen ==
  \E current \in Currents : current + Margin > target /\ threshold(current)

(***************************************************************************)
(* The dispatch loop and the timeout loop                                  *)
(***************************************************************************)
\* request.go:240-250  one tick of taskLoop
taskLoopTick ==
  /\ taskPc = "run"
  /\ IF ~should \/ queue = <<>>
     THEN UNCHANGED vars
     ELSE LET id == listShift(queue).ele IN
          /\ queue' = listShift(queue).rest
          /\ chunks' = chunks \cup {id}
          /\ \E p \in PickChoices(reqs[id].to) : SetPoolState(request(PoolState, id, p))
          /\ UNCHANGED <<should, term, taskPc, loopPc, peers>>
          /\ UNCHANGED <<handleVars, stopVars, fixedVars>>

\* a dispatch loop that leaves on term without emptying the map
taskLoopExitKeepsMap ==
  /\ taskPc = "run"
  /\ term = "closed"
  /\ taskPc' = "exited"
  /\ UNCHANGED <<reqs, queue, chunks, target, should, term, loopPc, peers>>
  /\ UNCHANGED <<obsVars, stopVars, fixedVars>>

\* request.go:237-238, 253-256, 229  taskLoop leaves on term, empties the map
\* and signals the wait group
taskLoopExit ==
  /\ taskPc = "run"
  /\ term = "closed"
  /\ chunks' = {}
  /\ taskPc' = "exited"
  /\ UNCHANGED <<reqs, queue, target, should, term, loopPc, peers>>
  /\ UNCHANGED <<obsVars, stopVars, fixedVars>>

\* request.go:275-283  one entry of the map visited by the sweep of a tick
loopTick(id) ==
  /\ loopPc = "run"
  /\ id \in chunks
  /\ reqs[id].state = "pending" /\ reqs[id].expired
  /\ \E p \in RetryPeers(id) : SetPoolState(retry(PoolState, id, p))
  /\ UNCHANGED <<queue, chunks, should, term, taskPc, loopPc, peers>>
  /\ UNCHANGED <<handleVars, stopVars, fixedVars>>

\* request.go:272-273, 260  loop leaves on term and signals the wait group
loopExit ==
  /\ loopPc = "run"
  /\ term = "closed"
  /\ loopPc' = "exited"
  /\ UNCHANGED <<reqs, queue, chunks, target, should, term, taskPc, peers>>
  /\ UNCHANGED <<obsVars, stopVars, fixedVars>>

(***************************************************************************)
(* The inbound handler                                                     *)
(***************************************************************************)
\* message.SubLedger after Deserialize: nA account blocks and nS snapshot
\* blocks, each block named by its place in the payload
Payload(nA, nS) ==
  [ABlocks |-> [i \in 1..nA |-> i],
   SBlocks |-> [i \in 1..nS |-> i]]

\* the message as the network layer hands it over: id, command, whether the
\* payload decodes, and the numbers of blocks it decodes to
Msg(id, cmd, ok, nA, nS) == [id |-> id, cmd |-> cmd, ok |-> ok, nA |-> nA, nS |-> nS]

NoMsg == Msg(0, "none", TRUE, 0, 0)

\* the receiver's calls with the snapshot blocks handed over first
deliverSnapshotFirst(res) ==
  [i \in 1..Len(res.SBlocks) |-> <<"receiveSnapshotBlock", res.SBlocks[i]>>]
  \o [i \in 1..Len(res.ABlocks) |-> <<"receiveAccountBlock", res.ABlocks[i]>>]

\* request.go:181-188  the receiver's calls for a decoded response
deliver(res) ==
  [i \in 1..Len(res.ABlocks) |-> <<"receiveAccountBlock", res.ABlocks[i]>>]
  \o [i \in 1..Len(res.SBlocks) |-> <<"receiveSnapshotBlock", res.SBlocks[i]>>]

\* a handler that swallows the decode error
HandleErrNil(cmd, ok) == "nil"

\* request.go:173-177, 202  what Handle returns
HandleErr(cmd, ok) ==
  IF cmd = SubLedgerCode /\ ~ok THEN "decode error" ELSE "nil"

\* a handler that keeps the count of the last response only
HandleCountLast(id, nS) ==
  IF id \in chunks
  THEN LET c == [reqs[id] EXCEPT !.count = nS] IN
       /\ reqs' = [reqs EXCEPT ![id] = c]
       /\ chunks' = IF fullCount(c) THEN done(chunks, id) ELSE chunks
  ELSE UNCHANGED <<reqs, chunks>>

\* request.go:190-197  the count of the chunk and its removal when complete
HandleCount(id, nS) ==
  IF id \in chunks
  THEN LET c == [reqs[id] EXCEPT !.count = @ + nS] IN
       /\ reqs' = [reqs EXCEPT ![id] = c]
       /\ chunks' = IF fullCount(c) THEN done(chunks, id) ELSE chunks
  ELSE UNCHANGED <<reqs, chunks>>

\* request.go:169-203
Handle(id, cmd, ok, nA, nS) ==
  /\ hMsg' = Observe("handle", Msg(id, cmd, ok, nA, nS), hMsg)
  /\ hErr' = Observe("handle", HandleErr(cmd, ok), hErr)
  /\ IF cmd = SubLedgerCode /\ ok
     THEN /\ recv' = Observe("handle", deliver(Payload(nA, nS)), recv)
          /\ HandleCount(id, nS)
          /\ hRetry' = Observe("handle", 0, hRetry)
          /\ UNCHANGED <<target, catches, sent>>
     ELSE /\ recv' = Observe("handle", <<>>, recv)
          /\ hRetry' = Observe("handle", id, hRetry)
          /\ \E p \in RetryPeers(id) : SetPoolState(retry(PoolState, id, p))
          /\ UNCHANGED chunks
  /\ UNCHANGED <<queue, should, term, taskPc, loopPc, peers>>
  /\ UNCHANGED <<stopVars, fixedVars>>

\* the messages the network layer hands to Handle: a decoded response with its
\* blocks, a response that does not decode, a message of another command
HandleAny ==
  \E id \in MsgIds :
    \/ \E nA \in ABlockCounts, nS \in SBlockCounts : Handle(id, SubLedgerCode, TRUE, nA, nS)
    \/ Handle(id, SubLedgerCode, FALSE, 0, 0)
    \/ Handle(id, OtherCode, TRUE, 0, 0)

\* the peer a request was sent to answers it: Handle of a response that
\* decodes and carries every snapshot block of the chunk's interval, for a
\* chunk in the map that is not yet complete
respond(id) ==
  /\ id \in chunks
  /\ ~fullCount(reqs[id])
  /\ Handle(id, SubLedgerCode, TRUE, 0, reqs[id].to - reqs[id].from + 1)

(***************************************************************************)
(* retry, statement by statement.  retry takes no lock: the timeout loop    *)
(* and a handler can be inside it for the same chunk, and a response can be *)
(* handled between two of its statements.                                   *)
(***************************************************************************)
retryFrame ==
  /\ UNCHANGED <<queue, chunks, should, term, taskPc, loopPc, peers>>
  /\ UNCHANGED <<handleVars, stopVars, splitVars, watch, limit, reported>>

\* request.go:279-280, 175, 199, 347-353  the call and the Load: the sweep
\* calls retry for a pending entry past its deadline, the handler for a message
\* that is no decodable response; an id that is not in the map ends the call
retryLoad(t, id) ==
  /\ rPc[t] = "idle"
  /\ t = "loop" =>
       /\ loopPc = "run"
       /\ id \in chunks
       /\ reqs[id].state = "pending" /\ reqs[id].expired
  /\ IF id \in chunks
     THEN /\ rPc' = [rPc EXCEPT ![t] = "loaded"]
          /\ rId' = [rId EXCEPT ![t] = id]
     ELSE UNCHANGED <<rPc, rId>>
  /\ UNCHANGED <<reqs, target, catches, sent, rOld>>
  /\ retryFrame

\* request.go:355-356  old := c.peer; c.peer = nil
retryClear(t) ==
  /\ rPc[t] = "loaded"
  /\ rOld' = [rOld EXCEPT ![t] = reqs[rId[t]].peer]
  /\ reqs' = [reqs EXCEPT ![rId[t]].peer = NoPeer]
  /\ rPc' = [rPc EXCEPT ![t] = "cleared"]
  /\ UNCHANGED <<target, catches, sent, rId>>
  /\ retryFrame

\* request.go:358-366  c.peer = the first picked peer that is not old; with
\* none, c.peer is left as it is
retryAssign(t) ==
  /\ rPc[t] = "cleared"
  /\ LET others == Pick(reqs[rId[t]].to) \ {rOld[t]} IN
     IF others = {}
     THEN UNCHANGED reqs
     ELSE \E p \in others : reqs' = [reqs EXCEPT ![rId[t]].peer = p]
  /\ rPc' = [rPc EXCEPT ![t] = "assigned"]
  /\ UNCHANGED <<target, catches, sent, rId, rOld>>
  /\ retryFrame

\* request.go:368-372, 376-379  the test of c.peer: catch ends the call, or
\* the call goes on to do
retryBranch(t) ==
  /\ rPc[t] = "assigned"
  /\ IF reqs[rId[t]].peer = NoPeer
     THEN /\ SetPoolState(catch(PoolState, rId[t]))
          /\ rPc' = [rPc EXCEPT ![t] = "idle"]
     ELSE /\ rPc' = [rPc EXCEPT ![t] = "do"]
          /\ UNCHANGED <<reqs, target, catches, sent>>
  /\ UNCHANGED <<rId, rOld>>
  /\ retryFrame

\* request.go:381-385  do: the deadline, the state, and c.peer.Send on the
\* peer the chunk holds now (a nil peer here is a nil dereference; the send
\* is recorded with NoPeer)
retryDo(t) ==
  /\ rPc[t] = "do"
  /\ SetPoolState(do(PoolState, rId[t]))
  /\ rPc' = [rPc EXCEPT ![t] = "idle"]
  /\ UNCHANGED <<rId, rOld>>
  /\ retryFrame

(***************************************************************************)
(* Lifecycle                                                               *)
(***************************************************************************)
\* request.go:205-213; the pool is started once
start ==
  /\ term = "nil"
  /\ term' = "open"
  /\ taskPc' = "run"
  /\ loopPc' = "run"
  /\ UNCHANGED <<reqs, queue, chunks, target, should, peers>>
  /\ UNCHANGED <<obsVars, stopVars, fixedVars>>

\* a stop that closes term whenever the pool was started
stopClosesAlways(t) == t # "nil"

\* request.go:216-225  whether stop reaches close(p.term): term is set and
\* the receive from it is not ready
stopCloses(t) == t = "open"

\* request.go:215-226  a call of stop up to its return or to wg.Wait
stop ==
  /\ stops < MaxStops
  /\ stops' = Observe("stop", stops + 1, stops)
  /\ IF stopCloses(term)
     THEN /\ term' = "closed"
          /\ closes' = Observe("stop", closes + 1, closes)
          /\ stopPc' = "waiting"
     ELSE UNCHANGED <<term, closes, stopPc>>
  /\ UNCHANGED <<reqs, queue, chunks, target, should, taskPc, loopPc, peers>>
  /\ UNCHANGED <<obsVars, fixedVars>>

\* request.go:224  wg.Wait returns when both loops have called wg.Done
stopReturn ==
  /\ stopPc = "waiting"
  /\ taskPc = "exited" /\ loopPc = "exited"
  /\ stopPc' = "returned"
  /\ UNCHANGED <<poolVars, obsVars, closes, stops, fixedVars>>

(***************************************************************************)
(* Environment: the clock and the peer set                                 *)
(***************************************************************************)
\* request.go:279  now.After(c.deadline) becomes true for a pending chunk
deadlinePasses(id) ==
  /\ id \in 1..Len(reqs)
  /\ reqs[id].state = "pending" /\ ~reqs[id].expired
  /\ reqs' = [reqs EXCEPT ![id].expired = TRUE]
  /\ UNCHANGED <<queue, chunks, target, should, term, taskPc, loopPc, peers>>
  /\ UNCHANGED <<obsVars, stopVars, fixedVars>>

\* a peer connects or disconnects
peerChange(p) ==
  /\ peers' = IF p \in peers THEN peers \ {p} ELSE peers \cup {p}
  /\ UNCHANGED <<reqs, queue, chunks, target, should, term, taskPc, loopPc>>
  /\ UNCHANGED <<obsVars, stopVars, fixedVars>>

(***************************************************************************)
(* Specifications                                                          *)
(***************************************************************************)
\* request.go:143-151  newChunkPool: empty queue and map, zero target, gate
\* false, term nil
PoolInit ==
  /\ reqs = <<>>
  /\ queue = <<>>
  /\ chunks = {}
  /\ target = 0
  /\ should = FALSE
  /\ term = "nil"
  /\ taskPc = "off"
  /\ loopPc = "off"
  /\ stopPc = "idle"
  /\ hMsg = NoMsg
  /\ recv = <<>>
  /\ hErr = "nil"
  /\ hRetry = 0
  /\ catches = [id \in 1..MaxChunks |-> 0]
  /\ sent = <<0, NoPeer>>
  /\ closes = 0
  /\ stops = 0
  /\ reported = <<>>
  /\ rPc = [t \in RetryTasks |-> "idle"]
  /\ rId = [t \in RetryTasks |-> 0]
  /\ rOld = [t \in RetryTasks |-> NoPeer]

NoSplit == sFrom = 0 /\ sTo = 0 /\ sOut = <<>> /\ sPc = "idle"

Init ==
  /\ PoolInit
  /\ peers \in SUBSET Peers
  /\ NoSplit
  /\ watch = {}
  /\ limit = MaxChunks

Next ==
  \/ \E from \in Froms, to \in Tos : add(from, to)
  \/ \E from \in Froms, to \in Tos : exec(from, to)
  \/ \E current \in Currents : threshold(current)
  \/ taskLoopTick
  \/ taskLoopExit
  \/ \E id \in MsgIds : loopTick(id)
  \/ loopExit
  \/ HandleAny
  \/ start
  \/ stop
  \/ stopReturn
  \/ \E id \in MsgIds : deadlinePasses(id)
  \/ \E p \in Peers : peerChange(p)

Spec == Init /\ [][Next]_vars

\* every action of the pool, on the chunks of one add or exec of a single chunk
CountInit ==
  /\ PoolInit
  /\ peers \in SUBSET Peers
  /\ NoSplit
  /\ watch = {}
  /\ limit = MaxChunksOne

CountSpec == CountInit /\ [][Next]_vars

\* splitChunk applied to one pair of heights
SplitInit ==
  /\ PoolInit
  /\ peers = {}
  /\ sFrom \in Heights /\ sTo \in Heights
  /\ sOut = <<>>
  /\ sPc = "call"
  /\ watch = {}
  /\ limit = 0

SplitCall ==
  /\ sPc = "call"
  /\ sOut' = splitChunk(sFrom, sTo)
  /\ sPc' = "done"
  /\ UNCHANGED <<sFrom, sTo, poolVars, obsVars, stopVars, watch, limit, retryVars, reported>>

SplitSpec == SplitInit /\ [][SplitCall]_vars

\* the dispatch path and the handler, with receiver.catch counted per chunk
CatchInit ==
  /\ PoolInit
  /\ peers \in SUBSET Peers
  /\ NoSplit
  /\ watch = {"catch"}
  /\ limit = MaxChunks

CatchNext ==
  \/ \E from \in Froms, to \in Tos : add(from, to)
  \/ \E current \in Currents : threshold(current)
  \/ taskLoopTick
  \/ HandleAny
  \/ start
  \/ \E p \in Peers : peerChange(p)

CatchSpec == CatchInit /\ [][CatchNext]_vars

\* the dispatch path and the handler under a peer set that does not change,
\* with the message, the receiver's block calls and the result of each Handle
\* call recorded
HandleInit ==
  /\ PoolInit
  /\ peers \in SUBSET Peers
  /\ NoSplit
  /\ watch = {"handle"}
  /\ limit = MaxChunksOne

HandleNext ==
  \/ \E from \in Froms, to \in Tos : add(from, to)
  \/ \E current \in Currents : threshold(current)
  \/ taskLoopTick
  \/ HandleAny
  \/ start

HandleSpec == HandleInit /\ [][HandleNext]_vars

\* the lifecycle with the calls of stop and the closes of term recorded
LifeInit ==
  /\ PoolInit
  /\ peers \in SUBSET Peers
  /\ NoSplit
  /\ watch = {"stop"}
  /\ limit = MaxChunksOne

LifeNext ==
  \/ \E from \in Froms, to \in Tos : add(from, to)
  \/ \E current \in Currents : threshold(current)
  \/ taskLoopTick
  \/ taskLoopExit
  \/ loopExit
  \/ HandleAny
  \/ start
  \/ stop
  \/ stopReturn
  \/ \E p \in Peers : peerChange(p)

LifeSpec == LifeInit /\ [][LifeNext]_vars

\* the lifecycle under a peer set that does not change, with the messages
\* that arrive once stop has returned (no peer answers earlier), and with
\* the handler's calls and receiver.catch recorded
DrainInit ==
  /\ PoolInit
  /\ peers \in SUBSET Peers
  /\ NoSplit
  /\ watch = {"handle", "catch"}
  /\ limit = MaxChunksOne

DrainNext ==
  \/ \E from \in Froms, to \in Tos : add(from, to)
  \/ \E current \in Currents : threshold(current)
  \/ taskLoopTick
  \/ taskLoopExit
  \/ loopExit
  \/ stopPc = "returned" /\ HandleAny
  \/ start
  \/ stop
  \/ stopReturn

DrainSpec == DrainInit /\ [][DrainNext]_vars

\* the queue: enqueueing and the paced dispatch, every chunk created by add
FifoInit ==
  /\ PoolInit
  /\ peers \in SUBSET Peers
  /\ NoSplit
  /\ watch = {}
  /\ limit = MaxChunks

FifoNext ==
  \/ \E from \in Froms, to \in Tos : add(from, to)
  \/ \E current \in Currents : threshold(current)
  \/ taskLoopTick
  \/ \E id \in MsgIds : respond(id)
  \/ start
  \/ \E p \in Peers : peerChange(p)

FifoSpec == FifoInit /\ [][FifoNext]_vars

\* retries: a chunk dispatched from the queue and never answered, its
\* deadline passing, the timeout loop retrying it and the handler retrying it
\* for messages that are no decodable response, while peers come and go; the
\* sends and receiver.catch are recorded
RetryInit ==
  /\ PoolInit
  /\ peers \in SUBSET Peers
  /\ NoSplit
  /\ watch = {"send", "catch"}
  /\ limit = MaxChunksOne

RetryNext ==
  \/ \E from \in Froms, to \in Tos : add(from, to)
  \/ \E current \in Currents : threshold(current)
  \/ taskLoopTick
  \/ \E id \in MsgIds : loopTick(id)
  \/ \E id \in MsgIds : Handle(id, SubLedgerCode, FALSE, 0, 0)
  \/ \E id \in MsgIds : Handle(id, OtherCode, TRUE, 0, 0)
  \/ start
  \/ \E id \in MsgIds : deadlinePasses(id)
  \/ \E p \in Peers : peerChange(p)

RetrySpec == RetryInit /\ [][RetryNext]_vars

\* timeouts: a started pool that is not stopped, chunks dispatched from the
\* queue and by exec, deadlines passing; the timeout loop ticks for ever and
\* its sweep visits every entry of the map
TimeoutInit ==
  /\ PoolInit
  /\ peers \in SUBSET Peers
  /\ NoSplit
  /\ watch = {}
  /\ limit = MaxChunksOne

TimeoutNext ==
  \/ \E from \in Froms, to \in Tos : add(from, to)
  \/ \E from \in Froms, to \in Tos : exec(from, to)
  \/ \E current \in Currents : threshold(current)
  \/ taskLoopTick
  \/ \E id \in MsgIds : loopTick(id)
  \/ HandleAny
  \/ start
  \/ \E id \in MsgIds : deadlinePasses(id)
  \/ \E p \in Peers : peerChange(p)

TimeoutSpec ==
  /\ TimeoutInit
  /\ [][TimeoutNext]_vars
  /\ \A id \in 1..MaxChunks : WF_vars(loopTick(id))

\* races: a chunk dispatched from the queue, the timeout loop and the handler
\* inside retry statement by statement, responses handled in between (by the
\* handler when it is not inside retry), peers coming and going; the sends and
\* receiver.catch are recorded
RaceInit ==
  /\ PoolInit
  /\ peers \in SUBSET Peers
  /\ NoSplit
  /\ watch = {"send", "catch"}
  /\ limit = MaxChunksOne

RaceNext ==
  \/ \E from \in Froms, to \in Tos : add(from, to)
  \/ \E current \in Currents : threshold(current)
  \/ taskLoopTick
  \/ start
  \/ \E id \in MsgIds : deadlinePasses(id)
  \/ \E p \in Peers : peerChange(p)
  \/ \E id \in MsgIds, nS \in SBlockCounts :
       rPc["handle"] = "idle" /\ Handle(id, SubLedgerCode, TRUE, 0, nS)
  \/ \E t \in RetryTasks, id \in MsgIds : retryLoad(t, id)
  \/ \E t \in RetryTasks : retryClear(t)
  \/ \E t \in RetryTasks : retryAssign(t)
  \/ \E t \in RetryTasks : retryBranch(t)
  \/ \E t \in RetryTasks : retryDo(t)

RaceSpec == RaceInit /\ [][RaceNext]_vars

\* the gate: enqueueing, immediate and paced dispatch and the threshold
\* calls, each threshold call recorded with the target it compared with
GateInit ==
  /\ PoolInit
  /\ peers \in SUBSET Peers
  /\ NoSplit
  /\ watch = {"gate"}
  /\ limit = MaxChunks

GateNext ==
  \/ \E from \in Froms, to \in Tos : add(from, to)
  \/ \E from \in Froms, to \in Tos : exec(from, to)
  \/ \E current \in Currents : threshold(current)
  \/ taskLoopTick
  \/ start
  \/ \E p \in Peers : peerChange(p)

GateSpec == GateInit /\ [][GateNext]_vars

\* the happy path: a started pool that is not stopped, a peer serving every
\* height always connected, threshold calls that open the gate, every chunk in
\* flight answered in full; the dispatch loop ticks for ever and every
\* request is answered at last
HappyInit ==
  /\ PoolInit
  /\ peers \in {ps \in SUBSET Peers : "pA" \in ps}
  /\ NoSplit
  /\ watch = {}
  /\ limit = MaxChunks

HappyNext ==
  \/ \E from \in Froms, to \in Tos : add(from, to)
  \/ \E from \in Froms, to \in Tos : exec(from, to)
  \/ thresholdOpen
  \/ taskLoopTick
  \/ \E id \in MsgIds : loopTick(id)
  \/ \E id \in MsgIds : respond(id)
  \/ start
  \/ \E id \in MsgIds : deadlinePasses(id)

HappySpec ==
  /\ HappyInit
  /\ [][HappyNext]_vars
  /\ WF_vars(taskLoopTick)
  /\ \A id \in 1..MaxChunks : WF_vars(respond(id))

(***************************************************************************)
(* Claims                                                                  *)
(***************************************************************************)
Created == 1..Len(reqs)
Width(c) == c.to - c.from + 1

\* C1: in every reachable state, for every chunk created by add or exec, the
\* chunk's id is a key of the inflight map iff its state is pending or respond.
C1_InflightIffPending ==
  \A id \in Created : (id \in chunks) <=> (reqs[id].state \in {"pending", "respond"})

\* C2: the pool's target never decreases, whatever is dispatched.
C2_TargetMonotone == [][target' >= target]_vars

\* C3 (as claimed): for every chunk, in every reachable state,
\* count <= to - from + 1, whatever responses are handled for its id.
C3_CountAtMostWidth ==
  \A id \in Created : reqs[id].count <= Width(reqs[id])

\* C3 (amended): every chunk in the inflight map has count < to - from + 1; a
\* response is counted only for a chunk whose count is below its width, and
\* count never decreases; so count passes the width only by the surplus of the
\* one response that completes the chunk, and stays below the width plus the
\* largest number of snapshot blocks a response carries.
C3_CountBelowWidthInFlight ==
  /\ [](\A id \in Created :
         /\ id \in chunks => reqs[id].count < Width(reqs[id])
         /\ reqs[id].count < Width(reqs[id]) + chunk + MaxSurplus)
  /\ [][\A id \in Created :
         /\ reqs'[id].count >= reqs[id].count
         /\ reqs'[id].count # reqs[id].count
              => id \in chunks /\ reqs[id].count < Width(reqs[id])]_vars

\* C3 witness: a response carried more snapshot blocks than the chunk lacked:
\* the chunk is complete, out of the map, and its count is above its width.
C3_Witness ==
  \E id \in Created : id \notin chunks /\ reqs[id].count > Width(reqs[id])

\* C4: for every chunk, receiver.catch is invoked at most once over the
\* chunk's lifetime.
C4_CatchAtMostOnce == \A id \in Created : catches[id] <= 1

\* C5: error is terminal: once a chunk's state is error it never changes
\* again (in particular it is never set back to pending by a new send).
C5_ErrorIsTerminal ==
  [][\A id \in Created : reqs[id].state = "error" => reqs'[id].state = "error"]_vars

\* C6: when the dispatch loop takes a chunk from the queue and no connected
\* peer advertises height >= c.to, the chunk is caught with its band
\* unchanged and afterwards is neither in the queue nor in the inflight map.
C6_NoPeerLeavesNoTrace ==
  [][(queue # <<>> /\ queue' = Tail(queue) /\ Pick(reqs[Head(queue)].to) = {})
       => LET id == Head(queue) IN
          /\ reqs'[id].state = "error"
          /\ reqs'[id].from = reqs[id].from /\ reqs'[id].to = reqs[id].to
          /\ \A i \in 1..Len(queue') : queue'[i] # id
          /\ id \notin chunks']_vars

\* the reference partition of [from, to]: interval k starts at
\* from + (k-1)*chunk and is chunk wide, but the last, which ends at to
RefSplit(from, to) ==
  IF from > to \/ to = 0
  THEN <<>>
  ELSE [k \in 1..((to - from) \div chunk + 1) |->
          <<from + (k - 1) * chunk, Min(from + k * chunk - 1, to)>>]

\* C7: for every pair (from, to) of heights in 0..MaxHeight, splitChunk(from,
\* to) is empty when from > to or to = 0, and otherwise the ascending sequence
\* of closed intervals that starts at from, each starting at the previous
\* hi + 1, all but the last exactly 20 wide, the last 1..20 wide and ending
\* at to; that is, it equals the reference partition.
C7_SplitIsPartition ==
  sPc = "done" =>
    /\ sOut = RefSplit(sFrom, sTo)
    /\ (sFrom > sTo \/ sTo = 0) => sOut = <<>>
    /\ ~(sFrom > sTo \/ sTo = 0) =>
         /\ Len(sOut) >= 1
         /\ sOut[1][1] = sFrom
         /\ sOut[Len(sOut)][2] = sTo
         /\ \A k \in 1..Len(sOut) - 1 :
              /\ sOut[k][2] - sOut[k][1] + 1 = chunk
              /\ sOut[k + 1][1] = sOut[k][2] + 1
         /\ sOut[Len(sOut)][2] - sOut[Len(sOut)][1] + 1 \in 1..chunk

\* C7 witness: a range split into two full intervals and a shorter last one.
C7_Witness ==
  /\ sPc = "done"
  /\ Len(sOut) = 3
  /\ sOut[3][2] - sOut[3][1] + 1 < chunk

Decoded == "handle" \in watch /\ hMsg.cmd = SubLedgerCode /\ hMsg.ok
hRes == Payload(hMsg.nA, hMsg.nS)
DecodeFailed == "handle" \in watch /\ hMsg.cmd = SubLedgerCode /\ ~hMsg.ok

\* the blocks of the calls of one kind, in the order of the calls
BlocksOf(calls, kind) ==
  LET sel == SelectSeq(calls, LAMBDA call : call[1] = kind)
  IN [i \in 1..Len(sel) |-> sel[i][2]]

\* C8: for every decoded chunk response, every receiveAccountBlock call of the
\* message comes before every receiveSnapshotBlock call of it, and each block
\* of the payload is handed over exactly once, in payload order, whether or
\* not the message id is in the inflight map.
C8_AccountBeforeSnapshot ==
  Decoded =>
    /\ \A i, j \in 1..Len(recv) :
         (recv[i][1] = "receiveSnapshotBlock" /\ recv[j][1] = "receiveAccountBlock") => j < i
    /\ BlocksOf(recv, "receiveAccountBlock") = hRes.ABlocks
    /\ BlocksOf(recv, "receiveSnapshotBlock") = hRes.SBlocks
    /\ Len(recv) = Len(hRes.ABlocks) + Len(hRes.SBlocks)

\* C8 witness: a decoded response with several account blocks and snapshot
\* blocks, for a chunk that is in flight and stays so.
C8_Witness ==
  /\ Decoded
  /\ Len(hRes.ABlocks) >= 2 /\ Len(hRes.SBlocks) >= 2
  /\ Len(recv) = Len(hRes.ABlocks) + Len(hRes.SBlocks)
  /\ hMsg.id \in chunks
  /\ reqs[hMsg.id].count = Len(hRes.SBlocks)

C10_StopIdempotent ==
  /\ [](closes <= 1)
  /\ [][(stops' = stops + 1 /\ term = "open")
          => (term' = "closed" /\ closes' = closes + 1 /\ stopPc' = "waiting")]_vars
  /\ [][(stops' = stops + 1 /\ term # "open")
          => UNCHANGED <<poolVars, stopPc, closes>>]_vars
  /\ [][(stopPc = "waiting" /\ stopPc' # "waiting")
          => (taskPc = "exited" /\ loopPc = "exited")]_vars

\* C10 witness: the pool was started, a first stop has returned, and a second
\* stop has been called.
C10_Witness ==
  /\ stops = 2
  /\ closes = 1
  /\ stopPc = "returned"
  /\ term = "closed"

\* a chunk the dispatch loop had stored in the map and no response had
\* completed when the loop emptied the map (in the runs without exec, where
\* every chunk that left state waiting was stored)
InFlightAtShutdown(id) ==
  /\ stopPc = "returned"
  /\ reqs[id].state # "waiting"
  /\ ~fullCount(reqs[id])

\* a step that is a call of Handle for a message with this id
Handled(id) ==
  \E cmd \in Cmds, ok \in BOOLEAN, nA \in ABlockCounts, nS \in SBlockCounts :
    Handle(id, cmd, ok, nA, nS)

\* C11 (as claimed): after stop() has returned, the receiver gets no further
\* callback (receiveAccountBlock, receiveSnapshotBlock or catch) on behalf of
\* a chunk that was in flight at shutdown, also when a response or a malformed
\* message with the chunk's id is handled after stop.
C11_NoCallbackAfterStop ==
  [][\A id \in Created :
       InFlightAtShutdown(id) =>
         /\ catches'[id] = catches[id]
         /\ Handled(id) => recv' = <<>>]_vars

\* C11 (amended): shutdown itself makes no callback; after stop() has
\* returned, a chunk that was in flight at shutdown is out of the map, its
\* record no longer changes and receiver.catch is not called for it, also when
\* a malformed message or a message of another command with its id is handled
\* (the retry finds nothing and no block is delivered); a response that
\* decodes still has every block of its payload delivered.
C11_NoCatchAfterStop ==
  /\ [][\A id \in Created :
          InFlightAtShutdown(id) =>
            /\ id \notin chunks /\ id \notin chunks'
            /\ reqs'[id] = reqs[id]
            /\ catches'[id] = catches[id]
            /\ Handled(id) =>
                 recv' = IF hMsg'.cmd = SubLedgerCode /\ hMsg'.ok
                         THEN deliver(Payload(hMsg'.nA, hMsg'.nS))
                         ELSE <<>>]_vars
  /\ [][(taskPc = "run" /\ taskPc' = "exited")
          => (chunks' = {} /\ recv' = recv /\ catches' = catches)]_vars

\* C11 witness: stop has returned with a chunk in flight, sent and not
\* answered; afterwards a message with its id that is no decodable response
\* was handled: retry was called, nothing was delivered, nothing was caught.
C11_Witness ==
  \E id \in Created :
    /\ InFlightAtShutdown(id)
    /\ hMsg.id = id /\ ~Decoded /\ hRetry = id
    /\ recv = <<>>
    /\ reqs[id].state = "pending" /\ reqs[id].peer # NoPeer
    /\ catches[id] = 0

\* C12: after stop() has returned the pool holds no chunk: the inflight map is
\* empty and the FIFO queue is empty, whatever was pending or queued when stop
\* was called.
C12_StopLeavesNoChunk ==
  stopPc = "returned" => (chunks = {} /\ queue = <<>>)

Queued(id) == \E i \in 1..Len(queue) : queue[i] = id

\* dispatched from the queue, answered in full and removed from the map
Completed(id) ==
  /\ id \in Created
  /\ ~Queued(id)
  /\ id \notin chunks
  /\ reqs[id].state # "waiting"
  /\ fullCount(reqs[id])

\* C13: in a started pool with the gate open, a peer of sufficient height
\* always connected and every request answered in full, under fair scheduling
\* of the dispatch loop every chunk enqueued by add is eventually dispatched
\* and completed, and eventually the queue and the inflight map are both empty.
C13_HappyPathCompletes ==
  /\ \A id \in 1..MaxChunks :
       (term = "open" /\ should /\ Queued(id)) ~> Completed(id)
  /\ (term = "open" /\ should) ~> (queue = <<>> /\ chunks = {})

\* C13 witness: the two chunks of one add, both dispatched from the queue,
\* answered and removed: queue and map are empty again.
C13_Witness ==
  /\ term = "open" /\ should
  /\ Len(reqs) = 2
  /\ \A id \in Created : Completed(id)
  /\ reqs[2].from = reqs[1].to + 1
  /\ queue = <<>> /\ chunks = {}

\* a step of the dispatch loop that takes the head of the queue
Dispatches == queue # <<>> /\ queue' = Tail(queue)

\* C14 (as claimed): in every reachable state the gate equals
\* h + 500 > target for the height h most recently reported through threshold
\* and the pool's present target, and at every dispatch of a queued chunk
\* h + 500 > target holds for the target just before that dispatch.
C14_GateTracksTarget ==
  /\ [](reported # <<>> => should = (reported[1] + Margin > target))
  /\ [][Dispatches => (reported # <<>> /\ reported[1] + Margin > target)]_vars

\* C14 (amended): the gate is written by threshold only: in every reachable
\* state it is false if threshold was never called and otherwise equals
\* h + 500 > t for the height h and the pool's target t of the most recent
\* threshold call; the dispatch loop takes a chunk from the queue only while
\* the gate is true.
C14_GateAsOfLastThreshold ==
  /\ [](should = (reported # <<>> /\ reported[1] + Margin > reported[2]))
  /\ [][Dispatches => should]_vars

\* C14 witness: threshold(0) was called before anything was sent; then both
\* chunks of the queue were dispatched, the second one with target already at
\* 0 + 500 or beyond, and the gate is still true.
C14_Witness ==
  /\ should /\ reported = <<0, 0>>
  /\ {1, 2} \subseteq chunks
  /\ reqs[1].state = "pending" /\ reqs[2].state = "pending"
  /\ reported[1] + Margin <= target

\* C15: chunks leave the queue in the order they were enqueued: the chunks of
\* one add are queued, and so dispatched, in ascending height order; a chunk
\* enqueued earlier (ids are given in that order) is dispatched before a
\* chunk enqueued later; every dispatch takes the head of the queue, and a
\* chunk that was dispatched is never in the queue again.
C15_QueueIsFifo ==
  /\ [](/\ \A i \in 1..Len(queue) - 1 : queue[i] < queue[i + 1]
        /\ \A id \in Created : Queued(id) <=> reqs[id].state = "waiting"
        /\ \A i, j \in Created :
             (i < j /\ reqs[j].state # "waiting") => reqs[i].state # "waiting")
  /\ [][Dispatches => reqs'[Head(queue)].state # "waiting"]_vars
  /\ [][\A id \in Created :
          reqs[id].state # "waiting" => reqs'[id].state # "waiting"]_vars
  /\ [][Len(reqs') > Len(reqs) =>
          /\ queue' = queue \o [i \in 1..Len(reqs') - Len(reqs) |-> Len(reqs) + i]
          /\ \A i, j \in Len(reqs) + 1 .. Len(reqs') :
               i < j => reqs'[i].to < reqs'[j].from]_vars

\* C15 witness: add(481, 502) queued two chunks; the first, lower one has been
\* dispatched and the second one is still at the head of the queue.
C15_Witness ==
  /\ Len(reqs) = 2
  /\ reqs[1].to < reqs[2].from
  /\ reqs[1].state = "pending" /\ 1 \in chunks
  /\ queue = <<2>>

\* a step that is a call of retry(id): by the sweep of the timeout loop, or
\* by Handle for a response that does not decode or a message of another
\* command
RetryStep(id) ==
  \/ loopTick(id)
  \/ Handle(id, SubLedgerCode, FALSE, 0, 0)
  \/ Handle(id, OtherCode, TRUE, 0, 0)

\* C16: retry(id) for a chunk in the inflight map either re-sends the request
\* to a peer the selector returns for c.to that differs from the peer assigned
\* before, with a fresh deadline, or, when the selector returns no such peer,
\* sends nothing, clears the peer and calls catch; it never re-sends to the
\* previous peer. Id, band and count stay and the chunk stays in the map.
C16_RetryAvoidsOldPeer ==
  [][\A id \in Created :
       (id \in chunks /\ RetryStep(id)) =>
         LET old == reqs[id].peer
             others == Pick(reqs[id].to) \ {old}
         IN /\ IF others # {}
               THEN /\ reqs'[id].peer \in others
                    /\ reqs'[id].state = "pending" /\ ~reqs'[id].expired
                    /\ sent' = <<id, reqs'[id].peer>>
                    /\ catches' = catches
               ELSE /\ reqs'[id].peer = NoPeer
                    /\ reqs'[id].state = "error"
                    /\ sent' = sent
                    /\ catches'[id] = Min(catches[id] + 1, MaxCatch)
            /\ reqs'[id].from = reqs[id].from /\ reqs'[id].to = reqs[id].to
            /\ reqs'[id].count = reqs[id].count
            /\ id \in chunks']_vars

\* C16 witness: the chunk was dispatched to pA, the only peer for its height;
\* a retry found no other peer, sent nothing and called catch once.
C16_Witness ==
  /\ 1 \in chunks
  /\ sent = <<1, "pA">>
  /\ reqs[1].state = "error" /\ reqs[1].peer = NoPeer
  /\ catches[1] = 1
  /\ "pA" \in peers

\* sent, not answered in full, and past its deadline
Overdue(id) ==
  /\ id \in Created
  /\ reqs[id].state = "pending" /\ reqs[id].expired
  /\ ~fullCount(reqs[id])

\* C17: whenever a chunk is pending and its deadline has passed without
\* completion, then under fair scheduling of the timeout loop it is
\* eventually retried (sent again with a fresh deadline) or declared error, or
\* it completes; for chunks dispatched from the queue and for chunks
\* dispatched by exec.
C17_TimeoutRecovers ==
  \A id \in 1..MaxChunks :
    Overdue(id) ~> (id \in Created /\ ~Overdue(id))

\* C18: once a response has completed a chunk and removed it from the
\* inflight map, a retry racing with that response sends no request for the
\* chunk, does not call catch for it and does not change its state, its peer
\* or its deadline, in every interleaving of the two.
C18_LateRetryIsNoOp ==
  [][\A id \in Created :
       (id \notin chunks /\ fullCount(reqs[id])) =>
         /\ reqs'[id].state = reqs[id].state
         /\ reqs'[id].peer = reqs[id].peer
         /\ reqs[id].expired => reqs'[id].expired
         /\ catches'[id] = catches[id]
         /\ sent' # sent => sent'[1] # id]_vars

\* C19: a decoded response for an id in the inflight map adds exactly its
\* number of snapshot blocks to the chunk's count; response handling removes
\* the chunk from the map if and only if the accumulated count has reached
\* to - from + 1; a response that leaves the count below the width keeps the
\* chunk in the map with its band, peer, state and deadline unchanged; and a
\* retry leaves the count as it is.
C19_CountAccumulates ==
  /\ [][\A id \in Created :
          LET nS == hMsg'.nS IN
          (/\ id \in chunks
           /\ hMsg'.id = id /\ hMsg'.cmd = SubLedgerCode /\ hMsg'.ok
           /\ Handle(id, SubLedgerCode, TRUE, hMsg'.nA, nS)) =>
            /\ reqs'[id].count = reqs[id].count + nS
            /\ (id \notin chunks') <=> (reqs[id].count + nS >= Width(reqs[id]))
            /\ reqs[id].count + nS < Width(reqs[id]) =>
                 reqs' = [reqs EXCEPT ![id].count = @ + nS]]_vars
  /\ [][\A id \in Created :
          (id \in chunks /\ id \notin chunks') => reqs'[id].count >= Width(reqs[id])]_vars
  /\ [][\A id \in Created :
          (id \in chunks /\ RetryStep(id)) =>
            (reqs'[id].count = reqs[id].count /\ id \in chunks')]_vars

\* C19 witness: half of a chunk's snapshot blocks had been counted when a
\* response for its id did not decode; the retry sent the chunk again and the
\* count is still half the width.
C19_Witness ==
  /\ DecodeFailed
  /\ hMsg.id \in chunks /\ hRetry = hMsg.id
  /\ reqs[hMsg.id].state = "pending"
  /\ reqs[hMsg.id].count = chunk \div 2
  /\ Width(reqs[hMsg.id]) = chunk

\* C20: a request is never sent through a missing peer: do(c) runs only while
\* c.peer is set, and every chunk in state pending that no retry is working on
\* has an assigned peer, in every interleaving of the dispatch loop, the
\* timeout loop's retry and the handler's retry.
C20_SendNeedsPeer ==
  /\ sent[1] # 0 => sent[2] # NoPeer
  /\ \A id \in Created :
       (/\ reqs[id].state = "pending"
        /\ \A t \in RetryTasks : rPc[t] = "idle" \/ rId[t] # id)
         => reqs[id].peer # NoPeer

====
